---- MODULE Spec2Model ----
(***************************************************************************)
(* The capstone ETL notebook (6_capstone_project/capstone_project_guide):  *)
(* the I94 code book is parsed into two catalogs, the immigration batch is *)
(* decoded by five UDFs, projected, filtered, null-filled and numbered,    *)
(* the demographics table is projected and given a port by a sixth UDF,    *)
(* and both tables are written to the bucket in overwrite mode.            *)
(*                                                                         *)
(* Conventions.  A nullable value (a Spark column value, a Python value    *)
(* that may be None) is the empty tuple when null and a one-element tuple  *)
(* when present.  Text that the code inspects character by character (the  *)
(* labels of the code book) is a sequence of one-character strings; text   *)
(* that is only compared as a whole is a string.  The column i94res, on    *)
(* which the code calls int(), is a double <<whole, tenths>>; the other    *)
(* double columns only ever hold integral values here and are integers.    *)
(***************************************************************************)
EXTENDS Integers, Sequences, FiniteSets, TLC

VARIABLES
    pc,                    \* the notebook cell to run next
    error,                 \* the exception that stopped the run, or "none"
    port_lines,            \* lines[302:893] of the code book
    country_lines,         \* lines[9:245] of the code book
    valid_ports,           \* port code -> label
    valid_countries,       \* country code -> label
    immigration_df,        \* the raw immigration batch
    immigration_df_clean,  \* the cleaned batch
    udf,                   \* the UDF last applied on its own, or "none"
    udf_arg,               \* its argument
    udf_ret,               \* its outcome
    file_len,              \* len(lines): the number of lines of the code book
    valid_ports_keys,      \* the keys of valid_ports in insertion order
    demographics_df,       \* the raw demographics table
    demographics_df_clean, \* the cleaned demographics table
    s3,                    \* the bucket: path -> rows, for the paths that exist
    run,                   \* the number of the run (1 for the first)
    s3_before,             \* the bucket as the run found it
    repeat                 \* the run repeats the input of a completed run

\* What the immigration cells leave alone.
rest == <<file_len, demographics_df, demographics_df_clean, s3, run,
          s3_before, repeat>>

vars == <<pc, error, port_lines, country_lines, valid_ports, valid_countries,
          immigration_df, immigration_df_clean, udf, udf_arg, udf_ret,
          valid_ports_keys, rest>>

----------------------------------------------------------------------------
(* Values *)

None == <<>>
Some(v) == <<v>>

\* The outcome of a Python call: a returned (nullable) value or an exception.
Return(v) == [returns |-> v]
Raise(e) == [raises |-> e]
Raises(o) == "raises" \in DOMAIN o

\* A double: whole part and first decimal.
Double(w, t) == <<w, t>>
\* int(x): truncation of a non-negative double.
int(x) == x[1]
\* Python's hash/eq of a float against the int keys of a dict.
DoubleIsKey(x, keys) == x[2] = 0 /\ x[1] \in keys

----------------------------------------------------------------------------
(* The code book *)

\* The characters \s matches, of those that occur in the texts here.
Whitespace == {" ", "\t"}

\* The label kept as the file has it.
RemoveWhitespace_keeps_label(label) == label

\* re.sub("(\s+)", "", label)
RemoveWhitespace(label) == SelectSeq(label, LAMBDA c : c \notin Whitespace)

NEW_YORK == <<"N", "E", "W", " ", "Y", "O", "R", "K">>
ATLANTA == <<"A", "T", "L", "A", "N", "T", "A">>
NOT_REPORTED == <<"N", "O", "T", " ", "R", "E", "P", "O", "R", "T", "E", "D">>
AIRPORT == <<"A", "I", "R", "P", "O", "R", "T">>
NEWARK == <<"N", "E", "W", "A", "R", "K">>
ECUADOR == <<"E", "C", "U", "A", "D", "O", "R">>
SOUTH_KOREA == <<"S", "O", "U", "T", "H", " ", "K", "O", "R", "E", "A">>

\* lines[PortFirst:PortEnd] and lines[CountryFirst:CountryEnd]
PortFirst == 302
PortEnd == 893
CountryFirst == 9
CountryEnd == 245

\* lines[first:end] of a file of len lines, given the lines the file would
\* have from index `first` on if it were long enough.  (The sections here
\* list a few lines; the rest of a range repeats them.)
slice(section, first, end, len) ==
    LET stop == IF end < len THEN end ELSE len
        n == IF stop > first THEN stop - first ELSE 0
    IN  SubSeq(section, 1, IF n < Len(section) THEN n ELSE Len(section))

\* A line of the code book as the two groups its regular expression captures.
Line(code, label) == [code |-> code, label |-> label]
\* A line the regular expression does not match.
Unquoted == [unquoted |-> TRUE]
\* re_compiled.search(line): the match, or None.
search(line) == IF "code" \in DOMAIN line THEN Some(line) ELSE None

\* The port sections the runs read: the published one, whose codes are
\* three upper-case characters, and one that also lists a code 'Air'.
PortSections ==
    { << Line("NYC", NEW_YORK), Line("ATL", ATLANTA), Line("XXX", NOT_REPORTED) >>,
      << Line("NYC", NEW_YORK), Line("Air", AIRPORT), Line("NEW", NEWARK) >> }

CountrySections ==
    { << Line(117, ECUADOR), Line(276, SOUTH_KOREA) >> }

\* Building a dict line by line: a later line with the same key wins.
RECURSIVE DictOf(_, _)
DictOf(lines, n) ==
    IF n = 0 THEN << >>
    ELSE LET d == DictOf(lines, n - 1)
             k == lines[n].code
             v == RemoveWhitespace(lines[n].label)
         IN  [x \in (DOMAIN d) \cup {k} |-> IF x = k THEN v ELSE d[x]]

\* The keys of that dict in the order a loop over it visits them: the
\* order of first insertion.
RECURSIVE KeysOf(_, _)
KeysOf(lines, n) ==
    IF n = 0 THEN << >>
    ELSE LET ks == KeysOf(lines, n - 1)
             k == lines[n].code
         IN  IF \E i \in DOMAIN ks : ks[i] = k THEN ks ELSE Append(ks, k)

\* results.group(...) on a line without a match: None has no attribute group.
Unmatched(lines) == { i \in DOMAIN lines : search(lines[i]) = None }

get_valid_airport_list_result(lines) == DictOf(lines, Len(lines))
get_valid_country_list_result(lines) == DictOf(lines, Len(lines))

----------------------------------------------------------------------------
(* The calendar behind datetime(1960, 1, 1).date() + timedelta(x) *)

EpochYear == 1960

IsLeap(y) == (y % 4 = 0 /\ y % 100 # 0) \/ y % 400 = 0
DaysInYear(y) == IF IsLeap(y) THEN 366 ELSE 365
DaysInMonth(y, m) ==
    IF m = 2 THEN (IF IsLeap(y) THEN 29 ELSE 28)
    ELSE IF m \in {4, 6, 9, 11} THEN 30 ELSE 31

\* The month and day of the n-th day (from 0) of year y, searched from month m.
RECURSIVE MonthDay(_, _, _)
MonthDay(y, m, n) ==
    IF n >= DaysInMonth(y, m) THEN MonthDay(y, m + 1, n - DaysInMonth(y, m))
    ELSE [year |-> y, month |-> m, day |-> n + 1]

\* The date n days after 1 January of year y (n may be negative).
RECURSIVE AddDays(_, _)
AddDays(y, n) ==
    IF n < 0 THEN AddDays(y - 1, n + DaysInYear(y - 1))
    ELSE IF n >= DaysInYear(y) THEN AddDays(y + 1, n - DaysInYear(y))
    ELSE MonthDay(y, 1, n)

Pad2(n) == IF n < 10 THEN "0" \o ToString(n) ELSE ToString(n)

\* date.isoformat(): YYYY-MM-DD (years of four digits here).
isoformat(d) == ToString(d.year) \o "-" \o Pad2(d.month) \o "-" \o Pad2(d.day)

----------------------------------------------------------------------------
(* The UDFs *)

Other == <<"O", "t", "h", "e", "r">>

get_valid_port(x) ==
    IF x # None /\ x[1] \in DOMAIN valid_ports
    THEN Return(x)
    ELSE Return(Some("Other"))

\* int(None) raises TypeError; the membership test is on int(x) but the
\* subscript is x itself, so a fractional code whose whole part is a key
\* raises KeyError.
get_valid_country(x) ==
    IF x = None THEN Raise("TypeError")
    ELSE IF int(x[1]) \in DOMAIN valid_countries
         THEN IF DoubleIsKey(x[1], DOMAIN valid_countries)
              THEN Return(Some(valid_countries[int(x[1])]))
              ELSE Raise("KeyError")
         ELSE Return(Some(Other))

\* "if x:" is false for None and for 0.
convert_to_datetime_epoch_at_zero(x) ==
    IF x # None
    THEN Return(Some(isoformat(AddDays(EpochYear, x[1]))))
    ELSE Return(None)

convert_to_datetime(x) ==
    IF x # None /\ x[1] # 0
    THEN Return(Some(isoformat(AddDays(EpochYear, x[1]))))
    ELSE Return(None)

mode_dict == [k \in {1, 2, 3, 9} |->
                 CASE k = 1 -> "Air" [] k = 2 -> "Sea" [] k = 3 -> "Land"
                   [] k = 9 -> "Not reported"]

\* mode_dict.get(x): no default arm.
convert_mode_no_default(x) ==
    IF x # None /\ x[1] \in DOMAIN mode_dict
    THEN Return(Some(mode_dict[x[1]]))
    ELSE Return(None)

convert_mode(x) ==
    IF x # None /\ x[1] \in DOMAIN mode_dict
    THEN Return(Some(mode_dict[x[1]]))
    ELSE Return(Some("Not reported"))

visa_dict == [k \in {1, 2, 3} |->
                 CASE k = 1 -> "Business" [] k = 2 -> "Pleasure" [] k = 3 -> "Student"]

\* A table that lacks the entry for 3.
convert_visa_without_student(x) ==
    IF x # None /\ x[1] \in {1, 2}
    THEN Return(Some(visa_dict[x[1]]))
    ELSE Return(Some("Unknown"))

convert_visa(x) ==
    IF x # None /\ x[1] \in DOMAIN visa_dict
    THEN Return(Some(visa_dict[x[1]]))
    ELSE Return(Some("Unknown"))

\* str.lower() on the letters A-Z; every other character is kept.
UpperCase ==
    <<"A", "B", "C", "D", "E", "F", "G", "H", "I", "J", "K", "L", "M",
      "N", "O", "P", "Q", "R", "S", "T", "U", "V", "W", "X", "Y", "Z">>
LowerCase ==
    <<"a", "b", "c", "d", "e", "f", "g", "h", "i", "j", "k", "l", "m",
      "n", "o", "p", "q", "r", "s", "t", "u", "v", "w", "x", "y", "z">>
lower(text) ==
    [i \in DOMAIN text |->
        IF \E k \in DOMAIN UpperCase : UpperCase[k] = text[i]
        THEN LowerCase[CHOOSE k \in DOMAIN UpperCase : UpperCase[k] = text[i]]
        ELSE text[i]]

\* needle in hay, for two str values.
Contains(hay, needle) ==
    \E i \in 0..(Len(hay) - Len(needle)) :
        SubSeq(hay, i + 1, i + Len(needle)) = needle

\* The loop of city_to_port from the n-th key on; falling off the end of
\* the function returns None.
RECURSIVE city_to_port_from(_, _)
city_to_port_from(city, n) ==
    IF n > Len(valid_ports_keys) THEN None
    ELSE IF Contains(lower(valid_ports[valid_ports_keys[n]]), lower(city))
         THEN Some(valid_ports_keys[n])
         ELSE city_to_port_from(city, n + 1)

\* A loop that visits the keys from the last one back.
RECURSIVE city_to_port_back_from(_, _)
city_to_port_back_from(city, n) ==
    IF n = 0 THEN None
    ELSE IF Contains(lower(valid_ports[valid_ports_keys[n]]), lower(city))
         THEN Some(valid_ports_keys[n])
         ELSE city_to_port_back_from(city, n - 1)

city_to_port_last_match(city) ==
    IF Len(valid_ports_keys) = 0 THEN Return(None)
    ELSE IF city = None THEN Raise("AttributeError")
    ELSE Return(city_to_port_back_from(city[1], Len(valid_ports_keys)))

\* None.lower() raises AttributeError, and only once the loop body runs:
\* with an empty catalog the loop is not entered.
city_to_port(city) ==
    IF Len(valid_ports_keys) = 0 THEN Return(None)
    ELSE IF city = None THEN Raise("AttributeError")
    ELSE Return(city_to_port_from(city[1], 1))

----------------------------------------------------------------------------
(* The immigration batch *)

MaxRecords == 2

NullableColumns ==
    {"i94addr", "depdate", "i94bir", "airline", "fltno", "visatype", "gender"}

\* A raw row: the decoded columns as given, the pass-through columns null
\* where `nulls` names them.  cicid is set when the batch is assembled.
Raw(res, port, mode, arr, visa, nulls) ==
    [ cicid    |-> 0,
      i94yr    |-> 2016,
      i94mon   |-> 4,
      i94res   |-> res,
      i94port  |-> port,
      arrdate  |-> arr,
      i94mode  |-> mode,
      i94addr  |-> IF "i94addr" \in nulls THEN None ELSE Some("NY"),
      depdate  |-> IF "depdate" \in nulls THEN None ELSE Some(20580),
      i94bir   |-> IF "i94bir" \in nulls THEN None ELSE Some(37),
      i94visa  |-> visa,
      airline  |-> IF "airline" \in nulls THEN None ELSE Some("AA"),
      fltno    |-> IF "fltno" \in nulls THEN None ELSE Some("00199"),
      visatype |-> IF "visatype" \in nulls THEN None ELSE Some("B2"),
      gender   |-> IF "gender" \in nulls THEN None ELSE Some("M") ]

RawModes == {None, Some(1), Some(2), Some(3), Some(9)}
RawCountries ==
    {None, Some(Double(276, 0)), Some(Double(999, 0)), Some(Double(117, 5))}
NullMasks ==
    { NullableColumns,
      {"i94addr", "airline", "gender"},
      {"depdate", "i94bir", "fltno", "visatype"} }

\* The record of the end-to-end example: country 117, port 'XXX', arrival
\* day 20574, mode 1, visa 2, age 37, no state and no gender.
ExampleRecord ==
    Raw(Some(Double(117, 0)), Some("XXX"), Some(1), Some(20574), Some(2),
        {"i94addr", "gender"})

\* The rows a batch is drawn from: each mode code at a port whose code is
\* 'Air' and at a port whose code is not; a null and an unlisted port; rows
\* with nulls in the pass-through columns; each kind of country code; visa
\* codes and arrival dates.
RawRecords ==
    { Raw(Some(Double(117, 0)), p, m, Some(20574), Some(2), {}) :
          p \in {Some("Air"), Some("NYC")}, m \in RawModes }
    \cup { Raw(Some(Double(117, 0)), p, Some(1), Some(20574), Some(2), {}) :
          p \in {None, Some("ZZZ")} }
    \cup { Raw(Some(Double(117, 0)), Some("Air"), Some(1), Some(20574), Some(2), n) :
          n \in NullMasks }
    \cup { Raw(Some(Double(117, 0)), Some("Air"), None, Some(20574), Some(2),
               NullableColumns) }
    \cup { Raw(c, p, Some(1), Some(20574), Some(2), {}) :
          c \in RawCountries, p \in {Some("Air"), Some("NYC")} }
    \cup { Raw(Some(Double(117, 0)), Some("Air"), Some(1), av[1], av[2], {}) :
          av \in { <<None, None>>, <<Some(0), Some(1)>>,
                   <<None, Some(3)>>, <<Some(0), Some(4)>> } }
    \cup { ExampleRecord }

\* Batches of n rows; cicid numbers the rows of the file.
Batches(n) ==
    { [i \in 1..n |-> [rows[i] EXCEPT !.cicid = i]] : rows \in [1..n -> RawRecords] }

----------------------------------------------------------------------------
(* Cleaning *)

\* The outcomes of the UDFs on one row.
Decoded(r) ==
    [ origin_country |-> get_valid_country(r.i94res),
      arrival_port   |-> get_valid_port(r.i94port),
      arrival_date   |-> convert_to_datetime(r.arrdate),
      port_type      |-> convert_mode(r.i94mode),
      departure_date |-> convert_to_datetime(r.depdate),
      visitor_type   |-> convert_visa(r.i94visa) ]

\* The exceptions the UDFs raise on one row.
RowErrors(r) ==
    LET d == Decoded(r)
    IN  { d[c].raises : c \in { c \in DOMAIN d : Raises(d[c]) } }

\* withColumnRenamed / withColumn / select on one row (departure_date is
\* computed but not selected).
Selected(r) ==
    LET d == Decoded(r)
    IN  [ immigration_id        |-> r.cicid,
          immigration_year      |-> r.i94yr,
          immigration_month     |-> r.i94mon,
          origin_country        |-> d.origin_country.returns,
          arrival_port          |-> d.arrival_port.returns,
          arrival_date          |-> d.arrival_date.returns,
          port_type             |-> d.port_type.returns,
          state_of_residence    |-> r.i94addr,
          immigrant_age         |-> r.i94bir,
          visitor_type          |-> d.visitor_type.returns,
          airline_code          |-> r.airline,
          airline_flight_number |-> r.fltno,
          visa_type             |-> r.visatype,
          gender                |-> r.gender ]

\* .filter("arrival_port='Air'"): the predicate reads arrival_port.
PassesFilter(r) == get_valid_port(r.i94port).returns = Some("Air")

\* fillna({...}) on one row.
fillna_age_zero(r) ==
    [r EXCEPT
       !.immigrant_age = IF @ = None THEN Some(0) ELSE @,
       !.state_of_residence = IF @ = None THEN Some("unknown") ELSE @,
       !.airline_code = IF @ = None THEN Some("Unkown") ELSE @,
       !.airline_flight_number = IF @ = None THEN Some("Unknown") ELSE @,
       !.gender = IF @ = None THEN Some("X") ELSE @]

fillna(r) ==
    [r EXCEPT
       !.immigrant_age = IF @ = None THEN Some(-1) ELSE @,
       !.state_of_residence = IF @ = None THEN Some("unknown") ELSE @,
       !.airline_code = IF @ = None THEN Some("Unkown") ELSE @,
       !.airline_flight_number = IF @ = None THEN Some("Unknown") ELSE @,
       !.gender = IF @ = None THEN Some("X") ELSE @]

\* The orders a window ordered by a constant may produce.
Orders(n) == { f \in [1..n -> 1..n] : \A i, j \in 1..n : f[i] = f[j] => i = j }

\* rank() over the same window: every row is a peer of every other.
row_number_as_rank(df, order) ==
    [i \in 1..Len(df) |-> [immigrant_id |-> 1] @@ df[order[i]]]

\* select row_number() over (order by <constant>) as immigrant_id, *
row_number(df, order) ==
    [i \in 1..Len(df) |-> [immigrant_id |-> i] @@ df[order[i]]]

----------------------------------------------------------------------------
(* The notebook run *)

Init ==
    /\ pc = "get_valid_airport_list"
    /\ error = "none"
    /\ port_lines \in PortSections
    /\ country_lines \in CountrySections
    /\ valid_ports = << >>
    /\ valid_countries = << >>
    /\ \E n \in 0..MaxRecords : immigration_df \in Batches(n)
    /\ immigration_df_clean = << >>
    /\ udf = "none"
    /\ udf_arg = None
    /\ udf_ret = None
    /\ file_len = PortEnd
    /\ valid_ports_keys = << >>
    /\ demographics_df = << >>
    /\ demographics_df_clean = << >>
    /\ s3 = << >>
    /\ run = 1
    /\ s3_before = << >>
    /\ repeat = FALSE

get_valid_airport_list ==
    /\ pc = "get_valid_airport_list"
    /\ IF Unmatched(port_lines) # {}
       THEN /\ error' = "AttributeError"
            /\ pc' = "failed"
            /\ UNCHANGED <<valid_ports, valid_ports_keys>>
       ELSE /\ valid_ports' = get_valid_airport_list_result(port_lines)
            /\ valid_ports_keys' = KeysOf(port_lines, Len(port_lines))
            /\ pc' = "get_valid_country_list"
            /\ UNCHANGED error
    /\ UNCHANGED << port_lines, country_lines,
                   valid_countries, immigration_df,
                   immigration_df_clean, udf, udf_arg, udf_ret,
                   rest>>

get_valid_country_list ==
    /\ pc = "get_valid_country_list"
    /\ IF Unmatched(country_lines) # {}
       THEN /\ error' = "AttributeError"
            /\ pc' = "failed"
            /\ UNCHANGED valid_countries
       ELSE /\ valid_countries' = get_valid_country_list_result(country_lines)
            /\ pc' = "clean"
            /\ UNCHANGED error
    /\ UNCHANGED << port_lines, country_lines, valid_ports,
                   immigration_df, immigration_df_clean, udf,
                   udf_arg, udf_ret, valid_ports_keys, rest>>

\* The cell that builds immigration_df_clean, with the cells that first
\* materialise it.  The filter reads only arrival_port, so the engine may
\* apply it before or after the other UDFs: the rows it drops are decoded
\* under one plan and not under the other.  An exception in a decoded row
\* ends the job.
clean ==
    /\ pc = "clean"
    /\ \E pushdown \in BOOLEAN :
         LET kept == SelectSeq(immigration_df, PassesFilter)
             decoded == IF pushdown THEN kept ELSE immigration_df
             errors == UNION { RowErrors(decoded[i]) : i \in DOMAIN decoded }
         IN  IF errors # {}
             THEN /\ \E e \in errors : error' = e
                  /\ pc' = "failed"
                  /\ UNCHANGED immigration_df_clean
             ELSE /\ immigration_df_clean' = [i \in DOMAIN kept |-> Selected(kept[i])]
                  /\ pc' = "fillna"
                  /\ UNCHANGED error
    /\ UNCHANGED <<port_lines, country_lines, valid_ports,
                   valid_countries, immigration_df, udf, udf_arg,
                   udf_ret, valid_ports_keys, rest>>

fill_nulls ==
    /\ pc = "fillna"
    /\ immigration_df_clean' =
           [i \in DOMAIN immigration_df_clean |-> fillna(immigration_df_clean[i])]
    /\ pc' = "row_number"
    /\ UNCHANGED <<error, port_lines, country_lines, valid_ports,
                   valid_countries, immigration_df, udf, udf_arg,
                   udf_ret, valid_ports_keys, rest>>

assign_immigrant_id ==
    /\ pc = "row_number"
    /\ \E order \in Orders(Len(immigration_df_clean)) :
           immigration_df_clean' = row_number(immigration_df_clean, order)
    /\ pc' = "demographics"
    /\ UNCHANGED <<error, port_lines, country_lines, valid_ports,
                   valid_countries, immigration_df, udf, udf_arg,
                   udf_ret, valid_ports_keys, rest>>

Next ==
    \/ get_valid_airport_list
    \/ get_valid_country_list
    \/ clean
    \/ fill_nulls
    \/ assign_immigrant_id

Spec == Init /\ [][Next]_vars

----------------------------------------------------------------------------
(* The UDFs applied on their own, with both catalogs built *)

MaxCode == 12
MaxOffset == 366

PortArgs ==
    {None, Some("NYC"), Some("ATL"), Some("Air"), Some("XXX"), Some("ZZZ"),
     Some("Other"), Some("")}
CountryArgs ==
    {None} \cup { Some(Double(w, t)) : w \in {0, 117, 118, 276, 999}, t \in {0, 5} }
CodeArgs == {None} \cup { Some(n) : n \in -1..MaxCode }
OffsetArgs == {None} \cup { Some(n) : n \in (-1..MaxOffset) \cup {20574} }

\* City names as the demographics file spells them, and fragments of them.
Text(str) == Some(str)
CityArgs ==
    { None,
      Text(<<"N", "e", "w", "a", "r", "k">>),
      Text(<<"N", "E", "W", "A", "R", "K">>),
      Text(<<"N", "e", "w">>),
      Text(<<"a", "r", "k">>),
      Text(<<"r">>),
      Text(<<"T">>),
      Text(<<"A", "t", "l", "a", "n", "t", "a">>),
      Text(<<"Q", "u", "i", "n", "c", "y">>),
      Text(<< >>),
      Text(<<"N", "e", "w", " ", "Y", "o", "r", "k">>),
      Text(<<"N", "e", "w", "Y", "o", "r", "k">>),
      Text(<<"n", "o", "t", "\t", "r", "e", "p", "o", "r", "t", "e", "d">>),
      Text(<<"N", "e", "w", "a", "r", "k", " ">>),
      Text(<<" ">>) }

InitUdf ==
    /\ pc = "udf"
    /\ error = "none"
    /\ port_lines \in PortSections
    /\ country_lines \in CountrySections
    /\ valid_ports = get_valid_airport_list_result(port_lines)
    /\ valid_ports_keys = KeysOf(port_lines, Len(port_lines))
    /\ valid_countries = get_valid_country_list_result(country_lines)
    /\ file_len = PortEnd
    /\ demographics_df = << >>
    /\ demographics_df_clean = << >>
    /\ s3 = << >>
    /\ run = 1
    /\ s3_before = << >>
    /\ repeat = FALSE
    /\ immigration_df = << >>
    /\ immigration_df_clean = << >>
    /\ udf = "none"
    /\ udf_arg = None
    /\ udf_ret = None

apply_get_valid_port ==
    /\ pc = "udf"
    /\ \E x \in PortArgs :
           /\ udf' = "get_valid_port"
           /\ udf_arg' = x
           /\ udf_ret' = get_valid_port(x)
    /\ UNCHANGED <<pc, error, port_lines, country_lines,
                   valid_ports, valid_countries, immigration_df,
                   immigration_df_clean, valid_ports_keys, rest>>

apply_get_valid_country ==
    /\ pc = "udf"
    /\ \E x \in CountryArgs :
           /\ udf' = "get_valid_country"
           /\ udf_arg' = x
           /\ udf_ret' = get_valid_country(x)
    /\ UNCHANGED <<pc, error, port_lines, country_lines,
                   valid_ports, valid_countries, immigration_df,
                   immigration_df_clean, valid_ports_keys, rest>>

apply_convert_to_datetime ==
    /\ pc = "udf"
    /\ \E x \in OffsetArgs :
           /\ udf' = "convert_to_datetime"
           /\ udf_arg' = x
           /\ udf_ret' = convert_to_datetime(x)
    /\ UNCHANGED <<pc, error, port_lines, country_lines,
                   valid_ports, valid_countries, immigration_df,
                   immigration_df_clean, valid_ports_keys, rest>>

apply_convert_mode ==
    /\ pc = "udf"
    /\ \E x \in CodeArgs :
           /\ udf' = "convert_mode"
           /\ udf_arg' = x
           /\ udf_ret' = convert_mode(x)
    /\ UNCHANGED <<pc, error, port_lines, country_lines,
                   valid_ports, valid_countries, immigration_df,
                   immigration_df_clean, valid_ports_keys, rest>>

apply_convert_visa ==
    /\ pc = "udf"
    /\ \E x \in CodeArgs :
           /\ udf' = "convert_visa"
           /\ udf_arg' = x
           /\ udf_ret' = convert_visa(x)
    /\ UNCHANGED <<pc, error, port_lines, country_lines,
                   valid_ports, valid_countries, immigration_df,
                   immigration_df_clean, valid_ports_keys, rest>>

apply_city_to_port ==
    /\ pc = "udf"
    /\ \E x \in CityArgs :
           /\ udf' = "city_to_port"
           /\ udf_arg' = x
           /\ udf_ret' = city_to_port(x)
    /\ UNCHANGED <<pc, error, port_lines, country_lines,
                   valid_ports, valid_countries, immigration_df,
                   immigration_df_clean, valid_ports_keys, rest>>

NextUdf ==
    \/ apply_city_to_port
    \/ apply_get_valid_port
    \/ apply_get_valid_country
    \/ apply_convert_to_datetime
    \/ apply_convert_mode
    \/ apply_convert_visa

SpecUdf == InitUdf /\ [][NextUdf]_vars

----------------------------------------------------------------------------
(* The demographics table and the writes *)

\* A row of us-cities-demographics.csv; every column is read as text.
Demographic(city, race, count) ==
    [ City                     |-> city,
      State                    |-> Some("New Jersey"),
      MedianAge                |-> Some("34.6"),
      MalePopulation           |-> Some("138040"),
      FemalePopulation         |-> Some("143873"),
      TotalPopulation          |-> Some("281913"),
      NumberOfVeterans         |-> Some("5829"),
      ForeignBorn              |-> Some("86253"),
      AverageHouseholdSize     |-> Some("2.73"),
      StateCode                |-> Some("NJ"),
      Race                     |-> Some(race),
      Count                    |-> Some(count) ]

Newark == Text(<<"N", "e", "w", "a", "r", "k">>)
New_York == Text(<<"N", "e", "w", " ", "Y", "o", "r", "k">>)

\* select / withColumnRenamed / withColumn('port', ...) on one row; the
\* column port is the outcome of the UDF.
demographics_select(r) ==
    [ city              |-> r.City,
      state             |-> r.StateCode,
      male_population   |-> r.MalePopulation,
      female_population |-> r.FemalePopulation,
      total_population  |-> r.TotalPopulation,
      foreign_born      |-> r.ForeignBorn,
      race              |-> r.Race,
      n_persons         |-> r.Count,
      port              |-> city_to_port(r.City) ]

\* os.path.join(bucket, 'demographics/') and os.path.join(bucket, 'immigration/')
bucket == "s3a://jehofman-udacity-dend-capstone-project/"
demographics_path == bucket \o "demographics/"
immigration_path_as_demographics == bucket \o "demographics/"
immigration_path == bucket \o "immigration/"

\* Mode 'append': the rows are added to those the path holds.
write_json_append(store, path, rows) ==
    [p \in (DOMAIN store) \cup {path} |->
        IF p = path
        THEN (IF path \in DOMAIN store THEN store[path] \o rows ELSE rows)
        ELSE store[p]]

\* df.write.json(path, 'overwrite'), completed: the path holds the rows.
write_json(store, path, rows) ==
    [p \in (DOMAIN store) \cup {path} |-> IF p = path THEN rows ELSE store[p]]

\* Overwrite deletes what the path holds before the job writes.
delete(store, path) == [p \in (DOMAIN store) \ {path} |-> store[p]]

\* The cell that builds demographics_df_clean, with the cell that shows
\* it: the tables here are shorter than one batch of the UDF runner, so
\* showing the first rows evaluates city_to_port on every row.
clean_demographics ==
    /\ pc = "demographics"
    /\ LET rows == [i \in DOMAIN demographics_df |->
                        demographics_select(demographics_df[i])]
           errors == { rows[i].port.raises :
                         i \in { i \in DOMAIN rows : Raises(rows[i].port) } }
       IN  IF errors # {}
           THEN /\ \E e \in errors : error' = e
                /\ pc' = "failed"
                /\ UNCHANGED demographics_df_clean
           ELSE /\ demographics_df_clean' =
                       [i \in DOMAIN rows |-> [rows[i] EXCEPT !.port = @.returns]]
                /\ pc' = "write_demographics"
                /\ UNCHANGED error
    /\ UNCHANGED <<port_lines, country_lines, valid_ports, valid_ports_keys,
                   valid_countries, immigration_df, immigration_df_clean,
                   udf, udf_arg, udf_ret, file_len, demographics_df, s3,
                   run, s3_before, repeat>>

\* A write to the bucket completes, or raises before the old rows are
\* deleted, or raises after.
WriteOutcomes == {"written", "raised", "deleted and raised"}

write_demographics ==
    /\ pc = "write_demographics"
    /\ \E outcome \in WriteOutcomes :
         CASE outcome = "written" ->
                  /\ s3' = write_json(s3, demographics_path, demographics_df_clean)
                  /\ pc' = "write_immigration"
                  /\ UNCHANGED error
           [] outcome = "raised" ->
                  /\ error' = "Py4JJavaError"
                  /\ pc' = "failed"
                  /\ UNCHANGED s3
           [] outcome = "deleted and raised" ->
                  /\ s3' = delete(s3, demographics_path)
                  /\ error' = "Py4JJavaError"
                  /\ pc' = "failed"
    /\ UNCHANGED <<port_lines, country_lines, valid_ports, valid_ports_keys,
                   valid_countries, immigration_df, immigration_df_clean,
                   udf, udf_arg, udf_ret, file_len, demographics_df,
                   demographics_df_clean, run, s3_before, repeat>>

write_immigration ==
    /\ pc = "write_immigration"
    /\ \E outcome \in WriteOutcomes :
         CASE outcome = "written" ->
                  /\ s3' = write_json(s3, immigration_path, immigration_df_clean)
                  /\ pc' = "done"
                  /\ UNCHANGED error
           [] outcome = "raised" ->
                  /\ error' = "Py4JJavaError"
                  /\ pc' = "failed"
                  /\ UNCHANGED s3
           [] outcome = "deleted and raised" ->
                  /\ s3' = delete(s3, immigration_path)
                  /\ error' = "Py4JJavaError"
                  /\ pc' = "failed"
    /\ UNCHANGED <<port_lines, country_lines, valid_ports, valid_ports_keys,
                   valid_countries, immigration_df, immigration_df_clean,
                   udf, udf_arg, udf_ret, file_len, demographics_df,
                   demographics_df_clean, run, s3_before, repeat>>

----------------------------------------------------------------------------
(* Runs of the whole notebook, one after another, on a bucket that keeps  *)
(* what the runs before wrote                                             *)

MaxRuns == 2

\* The lengths of the code book: it ends inside the country range, at its
\* end, inside the port range, at its end.
FileLengths == {CountryFirst + 1, CountryEnd, PortFirst + 1, PortEnd}

\* What the port range and the country range hold in a long enough file:
\* well-formed lines, or a line without a quoted pair among them.
RunPortTexts ==
    { << Line("NYC", NEW_YORK), Line("Air", AIRPORT), Line("NEW", NEWARK) >>,
      << Line("NYC", NEW_YORK), Unquoted, Line("Air", AIRPORT) >> }
RunCountryTexts ==
    { << Line(117, ECUADOR), Line(276, SOUTH_KOREA) >>,
      << Line(117, ECUADOR), Unquoted >> }

\* cicid numbers the rows of the file.
WithCicid(rows) == [i \in DOMAIN rows |-> [rows[i] EXCEPT !.cicid = i]]

\* The immigration files of a run: none, one or two rows that arrive at the
\* port 'Air', one row whose country is null.
RunBatches ==
    { WithCicid(rows) : rows \in
        { << >>,
          << Raw(Some(Double(117, 0)), Some("Air"), Some(1), Some(20574), Some(2), {}) >>,
          << Raw(Some(Double(117, 0)), Some("Air"), Some(1), Some(20574), Some(2), {}),
             Raw(Some(Double(276, 0)), Some("Air"), Some(2), Some(20574), Some(1),
                 NullableColumns) >>,
          << Raw(None, Some("Air"), Some(1), Some(20574), Some(2), {}) >> } }

\* The demographics files of a run: no row, one row, the same row twice,
\* two cities, a row without a city.
RunDemographics ==
    { << >>,
      << Demographic(Newark, "White", "76402") >>,
      << Demographic(Newark, "White", "76402"),
         Demographic(Newark, "White", "76402") >>,
      << Demographic(New_York, "Asian", "4759"),
         Demographic(Newark, "White", "76402") >>,
      << Demographic(None, "White", "76402") >> }

\* The files a run reads.
RunInputs ==
    { [ file_len        |-> n,
        port_lines      |-> slice(pt, PortFirst, PortEnd, n),
        country_lines   |-> slice(ct, CountryFirst, CountryEnd, n),
        immigration_df  |-> b,
        demographics_df |-> d ] :
      n \in FileLengths, pt \in RunPortTexts, ct \in RunCountryTexts,
      b \in RunBatches, d \in RunDemographics }

InitRuns ==
    /\ pc = "get_valid_airport_list"
    /\ error = "none"
    /\ \E in \in RunInputs :
           /\ file_len = in.file_len
           /\ port_lines = in.port_lines
           /\ country_lines = in.country_lines
           /\ immigration_df = in.immigration_df
           /\ demographics_df = in.demographics_df
    /\ valid_ports = << >>
    /\ valid_ports_keys = << >>
    /\ valid_countries = << >>
    /\ immigration_df_clean = << >>
    /\ demographics_df_clean = << >>
    /\ udf = "none"
    /\ udf_arg = None
    /\ udf_ret = None
    /\ s3 = << >>
    /\ run = 1
    /\ s3_before = << >>
    /\ repeat = FALSE

\* The notebook is run again from its first cell, on the same files or on
\* other files.
run_again ==
    /\ pc \in {"done", "failed"}
    /\ run < MaxRuns
    /\ \E in \in RunInputs :
           /\ file_len' = in.file_len
           /\ port_lines' = in.port_lines
           /\ country_lines' = in.country_lines
           /\ immigration_df' = in.immigration_df
           /\ demographics_df' = in.demographics_df
           /\ repeat' = /\ pc = "done"
                        /\ in.file_len = file_len
                        /\ in.port_lines = port_lines
                        /\ in.country_lines = country_lines
                        /\ in.immigration_df = immigration_df
                        /\ in.demographics_df = demographics_df
    /\ pc' = "get_valid_airport_list"
    /\ error' = "none"
    /\ valid_ports' = << >>
    /\ valid_ports_keys' = << >>
    /\ valid_countries' = << >>
    /\ immigration_df_clean' = << >>
    /\ demographics_df_clean' = << >>
    /\ run' = run + 1
    /\ s3_before' = s3
    /\ UNCHANGED <<s3, udf, udf_arg, udf_ret>>

NextRuns ==
    \/ get_valid_airport_list
    \/ get_valid_country_list
    \/ clean
    \/ fill_nulls
    \/ assign_immigrant_id
    \/ clean_demographics
    \/ write_demographics
    \/ write_immigration
    \/ run_again

SpecRuns == InitRuns /\ [][NextRuns]_vars

----------------------------------------------------------------------------
(* Properties of the run *)

\* The cleaning cell has produced immigration_df_clean.
Cleaned ==
    pc \in {"fillna", "row_number", "demographics", "write_demographics",
            "write_immigration", "done"}
\* The null policy has been applied.
Filled ==
    pc \in {"row_number", "demographics", "write_demographics",
            "write_immigration", "done"}
\* The surrogate keys have been assigned.
Numbered ==
    pc \in {"demographics", "write_demographics", "write_immigration", "done"}

Emitted == { immigration_df_clean[i] : i \in DOMAIN immigration_df_clean }
\* The raw row an emitted row was made from.
RawOf(r) == immigration_df[r.immigration_id]
\* The positions of the raw rows whose mode code is 1.
ModeOne == { i \in DOMAIN immigration_df : immigration_df[i].i94mode = Some(1) }

\* C1: every row the cleaning step emits has port_type exactly "Air".
C1_EmittedPortTypeIsAir ==
    Cleaned => \A r \in Emitted : r.port_type = Some("Air")

\* C2: the cleaning step emits exactly the raw rows whose mode code is 1:
\* as many rows as there are such raw rows, and those rows.
C2_EmittedAreTheModeOneRows ==
    Cleaned =>
        /\ Len(immigration_df_clean) = Cardinality(ModeOne)
        /\ { r.immigration_id : r \in Emitted } = ModeOne

\* C3: over the N rows that passed the filter, the immigrant_id values are
\* exactly 1..N, each carried by exactly one row.
C3_ImmigrantIdsDense ==
    Numbered =>
        LET N == Cardinality({ i \in DOMAIN immigration_df :
                                   PassesFilter(immigration_df[i]) })
        IN  /\ Len(immigration_df_clean) = N
            /\ { r.immigrant_id : r \in Emitted } = 1..N
            /\ \A i, j \in DOMAIN immigration_df_clean :
                   immigration_df_clean[i].immigrant_id =
                       immigration_df_clean[j].immigrant_id => i = j
            /\ { r.immigration_id : r \in Emitted } =
                   { i \in DOMAIN immigration_df : PassesFilter(immigration_df[i]) }

C3_Witness ==
    /\ Numbered
    /\ Len(immigration_df_clean) >= 2
    /\ \E r \in Emitted : r.immigrant_id # r.immigration_id

C5_AirlineCodeUnknown ==
    Filled =>
        \A r \in Emitted :
            r.airline_code =
                IF RawOf(r).airline = None THEN Some("Unknown") ELSE RawOf(r).airline

\* C6: none of the join keys immigrant_id, arrival_port and port_type is
\* null in an emitted row, whatever the batch, rows with a null i94port or
\* a null i94mode included.
C6_JoinKeysNotNull ==
    Numbered =>
        \A r \in Emitted :
            /\ r.immigrant_id \in 1..Len(immigration_df_clean)
            /\ r.arrival_port # None
            /\ r.port_type # None

C6_Witness ==
    /\ Numbered
    /\ \E r \in Emitted : RawOf(r).i94mode = None /\ r.port_type = Some("Not reported")
    /\ \E i \in DOMAIN immigration_df : immigration_df[i].i94port = None

\* The rows of the batch that are the record of the end-to-end example.
Examples ==
    { i \in DOMAIN immigration_df :
          [immigration_df[i] EXCEPT !.cicid = 0] = ExampleRecord }

\* C16: the raw record {i94res: 117, i94port: "XXX", arrdate: 20574,
\* i94mode: 1.0, i94addr: null, i94bir: 37.0, i94visa: 2, gender: null} is
\* emitted as one record with origin_country "ECUADOR", arrival_port
\* "Other", arrival_date "2016-04-29", port_type "Air", state_of_residence
\* "unknown", immigrant_age 37, visitor_type "Pleasure" and gender "X",
\* the country catalog labelling 117 as ECUADOR.
C16_EndToEndExample ==
    Filled /\ valid_countries[117] = ECUADOR =>
        \A i \in Examples :
            /\ Cardinality({ r \in Emitted : r.immigration_id = i }) = 1
            /\ \A r \in Emitted :
                   r.immigration_id = i =>
                       /\ r.origin_country = Some(ECUADOR)
                       /\ r.arrival_port = Some("Other")
                       /\ r.arrival_date = Some("2016-04-29")
                       /\ r.port_type = Some("Air")
                       /\ r.state_of_residence = Some("unknown")
                       /\ r.immigrant_age = Some(37)
                       /\ r.visitor_type = Some("Pleasure")
                       /\ r.gender = Some("X")

\* C17: every emitted row has a field departure_date, which is the date
\* converted from the raw depdate when that is present and null when it is
\* missing.
C17_DepartureDateCarried ==
    Filled =>
        \A r \in Emitted :
            /\ "departure_date" \in DOMAIN r
            /\ r.departure_date = convert_to_datetime(RawOf(r).depdate).returns

\* C18: in every emitted row visa_type is not null: it is the raw visa code
\* when the raw visatype is present and "Unknown" when it is missing.
C18_VisaTypeNotNull ==
    Filled =>
        \A r \in Emitted :
            r.visa_type =
                IF RawOf(r).visatype = None THEN Some("Unknown") ELSE RawOf(r).visatype

----------------------------------------------------------------------------
(* Properties of the UDFs *)

Applied(name) == udf = name

\* C7: no normalizer raises, whatever the raw value, null and codes absent
\* from the catalogs included.
C7_NormalizersNeverRaise ==
    udf \in {"get_valid_port", "get_valid_country", "convert_to_datetime",
             "convert_mode", "convert_visa"} => ~Raises(udf_ret)

\* C8: get_valid_country returns the catalog's label for a raw code that is
\* a key of the country catalog and "Other" for a raw code that is not.
C8_CountryLabelOrOther ==
    Applied("get_valid_country") /\ udf_arg # None =>
        udf_ret =
            IF DoubleIsKey(udf_arg[1], DOMAIN valid_countries)
            THEN Return(Some(valid_countries[udf_arg[1][1]]))
            ELSE Return(Some(Other))

C10_EpochAtZero ==
    Applied("convert_to_datetime") =>
        /\ udf_arg = Some(0) => udf_ret = Return(Some("1960-01-01"))
        /\ udf_arg = None => udf_ret = Return(None)

\* C10, amended: convert_to_datetime of the day offset 0 is null, as it is
\* of null; the epoch shows from offset 1 on, which gives "1960-01-02".
C10_ZeroIsNull ==
    Applied("convert_to_datetime") =>
        /\ udf_arg = Some(0) => udf_ret = Return(None)
        /\ udf_arg = None => udf_ret = Return(None)
        /\ udf_arg = Some(1) => udf_ret = Return(Some("1960-01-02"))

C10_Witness ==
    /\ Applied("convert_to_datetime")
    /\ udf_arg = Some(0)
    /\ udf_ret = Return(None)

\* The positions of the catalog's keys whose label contains the city name,
\* letter case apart.
Matching(city) ==
    { n \in DOMAIN valid_ports_keys :
          Contains(lower(valid_ports[valid_ports_keys[n]]), lower(city)) }

\* C11: city_to_port of a city name is the first port code, in the order
\* the catalog is iterated, whose label contains the name as a substring,
\* letter case apart, and null when no label contains it; the call leaves
\* the port catalog as it was.
C11_FirstMatchingPort ==
    /\ Applied("city_to_port") /\ udf_arg # None =>
           LET hits == Matching(udf_arg[1])
           IN  IF hits = {}
               THEN udf_ret = Return(None)
               ELSE \E n \in hits :
                        /\ \A m \in hits : n <= m
                        /\ udf_ret = Return(Some(valid_ports_keys[n]))
    /\ valid_ports = get_valid_airport_list_result(port_lines)
    /\ valid_ports_keys = KeysOf(port_lines, Len(port_lines))

\* A name that the labels of three keys contain: the first key is returned.
C11_Witness ==
    /\ Applied("city_to_port")
    /\ udf_arg = Text(<<"r">>)
    /\ Cardinality(Matching(<<"r">>)) = 3
    /\ udf_ret = Return(Some("NYC"))

\* A character that \s matches.
HasWhitespace(text) == \E i \in DOMAIN text : text[i] \in Whitespace

\* C20: a city name that contains a whitespace character resolves to a
\* null port, whatever catalog the parser has produced: the labels are
\* stored without whitespace and the name is compared as it is.
C20_WhitespaceCityHasNoPort ==
    Applied("city_to_port") /\ udf_arg # None /\ HasWhitespace(udf_arg[1]) =>
        udf_ret = Return(None)

\* "New York" against a catalog whose section spells the label NEW YORK.
C20_Witness ==
    /\ Applied("city_to_port")
    /\ udf_arg = Text(<<"N", "e", "w", " ", "Y", "o", "r", "k">>)
    /\ \E i \in DOMAIN port_lines : port_lines[i].label = NEW_YORK
    /\ Matching(<<"N", "e", "w", "Y", "o", "r", "k">>) # {}
    /\ udf_ret = Return(None)

----------------------------------------------------------------------------
(* Properties of the runs *)

\* The range of the ports, or of the countries, is not all in the file, or
\* holds a line without a quoted pair.
PortRangeBad == file_len < PortEnd \/ Unmatched(port_lines) # {}
CountryRangeBad == file_len < CountryEnd \/ Unmatched(country_lines) # {}

\* C12: when the code book lacks the line range of the ports (302-892) or
\* of the countries (9-244), or a line of a range has no quoted pair, the
\* parsing of that catalog ends the run with a CatalogFormatError, and no
\* row is processed or written; no empty or partial catalog is returned.
C12_CatalogFormatError ==
    LET Aborted ==
            /\ pc = "failed"
            /\ error = "CatalogFormatError"
            /\ immigration_df_clean = << >>
            /\ demographics_df_clean = << >>
            /\ s3 = s3_before
    IN  /\ PortRangeBad /\ pc # "get_valid_airport_list" =>
               Aborted /\ valid_ports = << >>
        /\ CountryRangeBad
             /\ pc \notin {"get_valid_airport_list", "get_valid_country_list"} =>
               Aborted /\ valid_countries = << >>

\* The six tables of the data model.
Tables ==
    {"immigrant", "immigrant_stats", "arrival_info", "arrival_date",
     "city_population", "city_demographics"}

WithoutImmigrantId(rows) ==
    { [f \in (DOMAIN rows[i]) \ {"immigrant_id"} |-> rows[i][f]] : i \in DOMAIN rows }

\* A path holds the rows this run made for it, and no other row.
HoldsLatestRun ==
    /\ DOMAIN s3 = {demographics_path, immigration_path}
    /\ s3[demographics_path] = demographics_df_clean
    /\ s3[immigration_path] = immigration_df_clean

\* C14: after completed runs each path holds exactly the rows of the most
\* recent run, rows of an older run never remain, and a run on the input
\* of the run before it leaves each path as that run left it.
C14_LatestRunOnly ==
    pc = "done" =>
        /\ HoldsLatestRun
        /\ repeat => s3 = s3_before

\* C14, amended: after completed runs each path holds exactly the rows of
\* the most recent run, rows of an older run never remain, and a run on
\* the input of the run before it leaves demographics/ as that run left it
\* and immigration/ with the same rows, the immigrant_id values 1..N
\* possibly on other rows.
C14_LatestRunUpToIds ==
    pc = "done" =>
        /\ HoldsLatestRun
        /\ repeat =>
               /\ s3[demographics_path] = s3_before[demographics_path]
               /\ WithoutImmigrantId(s3[immigration_path]) =
                      WithoutImmigrantId(s3_before[immigration_path])
               /\ Len(s3[immigration_path]) = Len(s3_before[immigration_path])
               /\ { r.immigrant_id : r \in Emitted } = 1..Len(s3[immigration_path])

\* The second run wrote fewer rows than the first, to both paths.
C14_Witness ==
    /\ pc = "done"
    /\ run = 2
    /\ DOMAIN s3_before = {demographics_path, immigration_path}
    /\ Len(s3_before[immigration_path]) = 2
    /\ Len(s3[immigration_path]) = 1
    /\ Len(s3_before[demographics_path]) = 2
    /\ Len(s3[demographics_path]) = 0

\* C15: a run that fails, in the parsing of a catalog, in the cleaning or
\* in a write, leaves every path as the run before it left it.
C15_FailedRunLeavesPartitions ==
    pc = "failed" /\ DOMAIN s3_before = {demographics_path, immigration_path} =>
        s3 = s3_before

\* C19: the cleaned demographics table has no two rows that agree on every
\* selected column.
C19_NoDuplicateDemographics ==
    pc \in {"write_demographics", "write_immigration", "done"} =>
        \A i, j \in DOMAIN demographics_df_clean :
            demographics_df_clean[i] = demographics_df_clean[j] => i = j

====
